---- MODULE Spec2Model ----
(***************************************************************************)
(* vec-utils: general_zip::try_zip_with, the buffer-reusing zip/map over a *)
(* heterogeneous list of Vecs (src/src/vec/general_zip.rs).                *)
(*                                                                         *)
(* The nested input list (A, (B, (C,))) is modelled as the sequence        *)
(* <<A, B, C>>; the recursive trait functions recurse over a position p of *)
(* that sequence, the sub-list at p being the elements p..Len.  Memory is  *)
(* a flat map from addresses to cells; every Vec owns the block of cells   *)
(* that starts at its base address.  Elements are values tagged with the   *)
(* input and index they came from, so reads and drops are counted per      *)
(* element, and the transform's output is the symbolic application of the  *)
(* transform to the item it received.                                      *)
(***************************************************************************)
EXTENDS Integers, Sequences, FiniteSets, TLC

\* ------------------------------------------------------------------ bounds
\* Most inputs in the list, and most elements in one input.
MaxN == 2
MaxLen == 3
\* Spare capacity of an input Vec beyond its length: an exact fit or one slot.
Spares == {0, 1}
MaxSpare == CHOOSE s \in Spares : \A t \in Spares : t <= s

\* Memory layouts (size, align) of element types; LayoutV is that of R::Ok.
LayoutV == <<4, 4>>
Layouts == {<<4, 4>>, <<4, 2>>}

\* Distance between the base addresses of two allocations, in elements.
Stride == MaxLen + MaxSpare + 1
Base(i) == i * Stride
AllocOf(addr) == addr \div Stride
\* The allocation made by collect() on the slow path.
FreshAlloc == 0

VecShapes ==
    {[len |-> l, cap |-> l + s, layout |-> y] :
        l \in 0..MaxLen, s \in Spares, y \in Layouts}
InputLists == UNION {[1..n -> VecShapes] : n \in 1..MaxN}

Min(a, b) == IF a <= b THEN a ELSE b

VARIABLES
    vecs,               \* the input list handed to try_zip_with (types and shapes)
    pc,                 \* position in try_zip_with
    mem,                \* address -> cell
    input,              \* ZipWithIter.input : In::Data, a list of Input<A>
    output,             \* ZipWithIter.output : Output<V>
    initial_len,        \* ZipWithIter.initial_len
    remaining_len,      \* ZipWithIter.remaining_len
    should_free_output, \* ZipWithIter.should_free_output
    item,               \* the In::Item read in this step of the walk
    dropIdx,            \* the list position drop_rest is disposing
    iters,              \* slow path: elements each vec::IntoIter has yielded
    collected,          \* slow path: the Vec that collect() is building
    ret,                \* what try_zip_with returns (or that it unwinds)
    fLog,               \* outcome of each call of the transform so far
    reads,              \* element -> times moved out of its buffer
    passed,             \* element -> times handed to the transform
    drops,              \* element -> times dropped by this crate / the iterators
    outDrops,           \* call number -> times that call's output was dropped
    frees,              \* allocation -> times freed
    ub,                 \* a read, write or drop touched memory it must not
    assert_failed       \* a debug_assert! did not hold

vars == <<vecs, pc, mem, input, output, initial_len, remaining_len,
          should_free_output, item, dropIdx, iters, collected, ret, fLog,
          reads, passed, drops, outDrops, frees, ub, assert_failed>>

N == Len(vecs)

\* ------------------------------------------------------------ memory cells
Uninit == <<"uninit">>
Elem(i, j) == <<"in", i, j>>
\* The value the transform returns for its k-th call, given item it.
Out(k, it) == <<"out", k, it>>
IsElem(c) == c[1] = "in"
IsOut(c) == c[1] = "out"

Elems(vs) == UNION {{Elem(i, j) : j \in 0..(vs[i].len - 1)} : i \in 1..Len(vs)}
Addrs(vs) == UNION {{Base(i) + o : o \in 0..(vs[i].cap - 1)} : i \in 1..Len(vs)}

\* A Vec of shape vs[i] at Base(i): len initialized elements, then spare capacity.
InitMem(vs) ==
    [a \in Addrs(vs) |->
        LET i == AllocOf(a)
            o == a - Base(i)
        IN  IF o < vs[i].len THEN Elem(i, o) ELSE Uninit]

\* Reading outside every allocation yields no initialized value.
Cell(m, a) == IF a \in DOMAIN m THEN m[a] ELSE Uninit
CellsAt(m, as) == {Cell(m, a) : a \in as}
Bump(fn, S) == [e \in DOMAIN fn |-> IF e \in S THEN fn[e] + 1 ELSE fn[e]]

\* ------------------------------------------------------ Input<A>, Output<V>
InputFrom(i, v) ==
    [start |-> Base(i), ptr |-> Base(i), len |-> v.len, cap |-> v.cap,
     drop_alloc |-> TRUE]
OutputNew(start, cap) == [start |-> start, ptr |-> start, cap |-> cap]
NoOutput == [start |-> 0, ptr |-> 0, cap |-> 0]

\* ------------------------------------------------- impl TupleElem for Vec<A>
Vec_capacity(d) == d.cap
Vec_len(v) == v.len
Vec_into_data(i, v) == InputFrom(i, v)
Vec_check_layout(v) == v.layout = LayoutV

\* Variant: the Output takes the input's length for its capacity.
Vec_take_output_len(v, d) ==
    [data |-> [d EXCEPT !.drop_alloc = FALSE],
     out |-> OutputNew(d.start, d.len),
     ok |-> v.layout = LayoutV]

Vec_take_output(v, d) ==
    [data |-> [d EXCEPT !.drop_alloc = FALSE],
     out |-> OutputNew(d.start, d.cap),
     ok |-> v.layout = LayoutV]

\* Variant: the pointer is advanced before the read.
Vec_next_unchecked_preinc(d, m) ==
    [val |-> Cell(m, d.ptr + 1), data |-> [d EXCEPT !.ptr = d.ptr + 1]]

\* Variant: the pointer is not advanced.
Vec_next_unchecked_stuck(d, m) ==
    [val |-> Cell(m, d.ptr), data |-> d]

Vec_next_unchecked(d, m) ==
    [val |-> Cell(m, d.ptr), data |-> [d EXCEPT !.ptr = d.ptr + 1]]

\* Variant: the slice to drop is taken from data.start.
Vec_drop_rest_slice_from_start(d, len) ==
    IF d.len - len < 0 THEN {} ELSE {d.start + o : o \in 0..(d.len - len - 1)}

\* drop_in_place(from_raw_parts_mut(data.ptr, data.len - len)): the addresses
\* of the slice, and whether data.len - len underflows.
Vec_drop_rest_slice(d, len) ==
    IF d.len - len < 0 THEN {} ELSE {d.ptr + o : o \in 0..(d.len - len - 1)}
Vec_drop_rest_underflow(d, len) == d.len - len < 0
\* Variant: the allocation is freed whether or not it was claimed.
Vec_drop_rest_frees_always(d) == TRUE

\* Variant: the allocation is freed after the elements are dropped, with no
\* guard, so not when their drop panicked.
Vec_drop_rest_frees_unguarded(d) == d.drop_alloc /\ ret.kind # "drop_panic"

\* the deferred block: the allocation is freed iff drop_alloc
Vec_drop_rest_frees(d) == d.drop_alloc

\* ----------------------------------------- impl Tuple for (A,) and (A, T)
\* Tuple::LEN of the sub-list at position p: 0 for (A,), T::LEN + 1 for (A, T).
LEN(vs, p) == Len(vs) - p

Tuple_into_data(vs) == [p \in 1..Len(vs) |-> Vec_into_data(p, vs[p])]

\* Variant: only the head's length is taken.
Tuple_remaining_len_head(vs, p) == Vec_len(vs[p])

RECURSIVE Tuple_remaining_len(_, _)
Tuple_remaining_len(vs, p) ==
    IF p = Len(vs) THEN Vec_len(vs[p])
    ELSE Min(Vec_len(vs[p]), Tuple_remaining_len(vs, p + 1))

RECURSIVE Tuple_check_layout(_, _)
Tuple_check_layout(vs, p) ==
    IF p = Len(vs) THEN Vec_check_layout(vs[p])
    ELSE Vec_check_layout(vs[p]) \/ Tuple_check_layout(vs, p + 1)

\* Variant: on equal capacities the tail's candidate is kept.
RECURSIVE max_cap_tail_wins(_, _, _, _)
max_cap_tail_wins(vs, data, p, depth) ==
    IF p = Len(vs) THEN
        IF Vec_check_layout(vs[p])
        THEN [some |-> TRUE, cap |-> Vec_capacity(data[p]), depth |-> LEN(vs, p)]
        ELSE [some |-> FALSE, cap |-> 0, depth |-> depth]
    ELSE
        LET cap_rest == max_cap_tail_wins(vs, data, p + 1, depth) IN
        IF Vec_check_layout(vs[p]) THEN
            LET cap == Vec_capacity(data[p]) IN
            IF cap_rest.some /\ cap_rest.cap >= cap
            THEN [some |-> TRUE, cap |-> cap_rest.cap, depth |-> cap_rest.depth]
            ELSE [some |-> TRUE, cap |-> cap, depth |-> LEN(vs, p)]
        ELSE cap_rest

\* Variant: every element counts as layout-matching.
RECURSIVE max_cap_any_layout(_, _, _, _)
max_cap_any_layout(vs, data, p, depth) ==
    IF p = Len(vs) THEN
        [some |-> TRUE, cap |-> Vec_capacity(data[p]), depth |-> LEN(vs, p)]
    ELSE
        LET cap_rest == max_cap_any_layout(vs, data, p + 1, depth)
            cap == Vec_capacity(data[p])
        IN  IF cap_rest.cap > cap
            THEN [some |-> TRUE, cap |-> cap_rest.cap, depth |-> cap_rest.depth]
            ELSE [some |-> TRUE, cap |-> cap, depth |-> LEN(vs, p)]

\* max_cap returns Option<usize> and writes *depth.
RECURSIVE max_cap(_, _, _, _)
max_cap(vs, data, p, depth) ==
    IF p = Len(vs) THEN
        IF Vec_check_layout(vs[p])
        THEN [some |-> TRUE, cap |-> Vec_capacity(data[p]), depth |-> LEN(vs, p)]
        ELSE [some |-> FALSE, cap |-> 0, depth |-> depth]
    ELSE
        LET cap_rest == max_cap(vs, data, p + 1, depth) IN
        IF Vec_check_layout(vs[p]) THEN
            LET cap == Vec_capacity(data[p]) IN
            IF cap_rest.some /\ cap_rest.cap > cap
            THEN [some |-> TRUE, cap |-> cap_rest.cap, depth |-> cap_rest.depth]
            ELSE [some |-> TRUE, cap |-> cap, depth |-> LEN(vs, p)]
        ELSE cap_rest

\* Claims position p of the list: the new list data, the Output, and whether
\* the debug assertions on the way held.
ClaimAt(vs, data, p, asserts) ==
    LET t == Vec_take_output(vs[p], data[p]) IN
    [data |-> [data EXCEPT ![p] = t.data], out |-> t.out,
     ok |-> asserts /\ t.ok, donor |-> p]

RECURSIVE take_output_impl(_, _, _, _)
take_output_impl(vs, data, p, depth) ==
    IF p = Len(vs) THEN ClaimAt(vs, data, p, LEN(vs, p) = depth)
    ELSE IF LEN(vs, p) = depth THEN ClaimAt(vs, data, p, TRUE)
    ELSE take_output_impl(vs, data, p + 1, depth)

Tuple_take_output(vs, data) ==
    IF Len(vs) = 1 THEN ClaimAt(vs, data, 1, TRUE)
    ELSE
        LET val == max_cap(vs, data, 1, 0)
            t == take_output_impl(vs, data, 1, val.depth)
        IN  [t EXCEPT !.ok = t.ok /\ val.some]

\* Variant: the item is assembled tail first.
RECURSIVE Tuple_next_unchecked_rev(_, _, _)
Tuple_next_unchecked_rev(data, m, p) ==
    LET r == Vec_next_unchecked(data[p], m) IN
    IF p = Len(data) THEN [item |-> <<r.val>>, data |-> [data EXCEPT ![p] = r.data]]
    ELSE
        LET t == Tuple_next_unchecked_rev(data, m, p + 1) IN
        [item |-> t.item \o <<r.val>>, data |-> [t.data EXCEPT ![p] = r.data]]

\* (A::next_unchecked(vec), T::next_unchecked(rest)): the item, head first.
RECURSIVE Tuple_next_unchecked(_, _, _)
Tuple_next_unchecked(data, m, p) ==
    LET r == Vec_next_unchecked(data[p], m) IN
    IF p = Len(data) THEN [item |-> <<r.val>>, data |-> [data EXCEPT ![p] = r.data]]
    ELSE
        LET t == Tuple_next_unchecked(data, m, p + 1) IN
        [item |-> <<r.val>> \o t.item, data |-> [t.data EXCEPT ![p] = r.data]]

\* ------------------------------------------------------------- the transform
FOutcomes == {"ok", "err", "panic"}
ItemElems(it) == {it[q] : q \in 1..Len(it)}

\* ------------------------------------------------------------------ results
NoRet == [kind |-> "none", start |-> 0, len |-> 0, cap |-> 0, call |-> 0, item |-> <<>>, at |-> 0]
RetOk(start, len, cap) ==
    [kind |-> "ok", start |-> start, len |-> len, cap |-> cap, call |-> 0, item |-> <<>>, at |-> 0]
RetErr(k, it) ==
    [kind |-> "err", start |-> 0, len |-> 0, cap |-> 0, call |-> k, item |-> it, at |-> 0]
RetPanic(k, it) ==
    [kind |-> "panic", start |-> 0, len |-> 0, cap |-> 0, call |-> k, item |-> it, at |-> 0]

\* ---------------------------------------------------------------------- Init
Init ==
    /\ vecs \in InputLists
    /\ pc = "start"
    /\ mem = InitMem(vecs)
    /\ input = <<>>
    /\ output = NoOutput
    /\ initial_len = 0
    /\ remaining_len = 0
    /\ should_free_output = FALSE
    /\ item = <<>>
    /\ dropIdx = 0
    /\ iters = <<>>
    /\ collected = <<>>
    /\ ret = NoRet
    /\ fLog = <<>>
    /\ reads = [e \in Elems(vecs) |-> 0]
    /\ passed = [e \in Elems(vecs) |-> 0]
    /\ drops = [e \in Elems(vecs) |-> 0]
    /\ outDrops = [k \in 1..MaxLen |-> 0]
    /\ frees = [a \in 0..Len(vecs) |-> 0]
    /\ ub = FALSE
    /\ assert_failed = FALSE

ghosts == <<reads, passed, drops, outDrops, frees, ub>>
slowVars == <<iters, collected>>

\* ------------------------------------------------- try_zip_with, fast path
\* In::check_layout::<R::Ok>() holds: decompose, claim the donor, build ZipWithIter.
TryZipWithFast ==
    /\ pc = "start"
    /\ Tuple_check_layout(vecs, 1)
    /\ LET len == Tuple_remaining_len(vecs, 1)
           t == Tuple_take_output(vecs, Tuple_into_data(vecs))
       IN  /\ input' = t.data
           /\ output' = t.out
           /\ initial_len' = len
           /\ remaining_len' = len
           /\ should_free_output' = TRUE
           /\ assert_failed' = (assert_failed \/ ~t.ok)
    /\ pc' = "walk"
    /\ UNCHANGED <<vecs, mem, item, dropIdx, ret, fLog, ghosts, slowVars>>

\* while let Some(remaining_len) = self.remaining_len.checked_sub(1):
\* the counter is decremented and one element is read from every input.
WalkNext ==
    /\ pc = "walk"
    /\ remaining_len >= 1
    /\ remaining_len' = remaining_len - 1
    /\ LET r == Tuple_next_unchecked(input, mem, 1) IN
        /\ input' = r.data
        /\ item' = r.item
        /\ reads' = Bump(reads, ItemElems(r.item))
        /\ ub' = (ub \/ \E c \in ItemElems(r.item) : ~IsElem(c))
    /\ pc' = "apply"
    /\ UNCHANGED <<vecs, mem, output, initial_len, should_free_output, dropIdx,
                   ret, fLog, passed, drops, outDrops, frees, assert_failed, slowVars>>

\* f(input)? is Ok: self.output.ptr.write(v); self.output.ptr = ptr.add(1)
ApplyOk ==
    /\ pc = "apply"
    /\ fLog' = Append(fLog, "ok")
    /\ passed' = Bump(passed, ItemElems(item))
    /\ mem' = IF output.ptr \in DOMAIN mem
              THEN [mem EXCEPT ![output.ptr] = Out(Len(fLog) + 1, item)]
              ELSE mem
    /\ ub' = (ub \/ output.ptr \notin DOMAIN mem
                 \/ output.ptr - output.start >= output.cap)
    /\ output' = [output EXCEPT !.ptr = output.ptr + 1]
    /\ item' = <<>>
    /\ pc' = "walk"
    /\ UNCHANGED <<vecs, input, initial_len, remaining_len, should_free_output,
                   dropIdx, ret, reads, drops, outDrops, frees, assert_failed, slowVars>>

\* Variant: the error is swallowed and the walk goes on.
ApplyErr_continue ==
    /\ pc = "apply"
    /\ fLog' = Append(fLog, "err")
    /\ passed' = Bump(passed, ItemElems(item))
    /\ item' = <<>>
    /\ pc' = "walk"
    /\ UNCHANGED <<vecs, mem, input, output, initial_len, remaining_len,
                   should_free_output, dropIdx, ret, reads, drops, outDrops,
                   frees, ub, assert_failed, slowVars>>

\* f(input)? is an error: try_into_vec returns it, self is dropped on the way out
ApplyErr ==
    /\ pc = "apply"
    /\ fLog' = Append(fLog, "err")
    /\ passed' = Bump(passed, ItemElems(item))
    /\ ret' = RetErr(Len(fLog) + 1, item)
    /\ item' = <<>>
    /\ dropIdx' = 1
    /\ pc' = "drop_elems"
    /\ UNCHANGED <<vecs, mem, input, output, initial_len, remaining_len,
                   should_free_output, reads, drops, outDrops, frees, ub,
                   assert_failed, slowVars>>

\* f(input) panics: unwinding drops self
ApplyPanic ==
    /\ pc = "apply"
    /\ fLog' = Append(fLog, "panic")
    /\ passed' = Bump(passed, ItemElems(item))
    /\ ret' = RetPanic(Len(fLog) + 1, item)
    /\ item' = <<>>
    /\ dropIdx' = 1
    /\ pc' = "drop_elems"
    /\ UNCHANGED <<vecs, mem, input, output, initial_len, remaining_len,
                   should_free_output, reads, drops, outDrops, frees, ub,
                   assert_failed, slowVars>>

\* The loop ends: the flag is cleared and the result Vec is built from the
\* output's raw parts; self is dropped when try_into_vec returns.
\* Variant: the flag is not cleared before the Vec is built.
WalkDone_flag_kept ==
    /\ pc = "walk"
    /\ remaining_len = 0
    /\ should_free_output' = should_free_output
    /\ ret' = RetOk(output.start, initial_len, output.cap)
    /\ dropIdx' = 1
    /\ pc' = "drop_elems"
    /\ UNCHANGED <<vecs, mem, input, output, initial_len, remaining_len, item,
                   fLog, ghosts, assert_failed, slowVars>>

\* Variant: the disarmed iterator is forgotten instead of dropped.
WalkDone_no_teardown ==
    /\ pc = "walk"
    /\ remaining_len = 0
    /\ should_free_output' = FALSE
    /\ ret' = RetOk(output.start, initial_len, output.cap)
    /\ dropIdx' = 1
    /\ pc' = "done"
    /\ UNCHANGED <<vecs, mem, input, output, initial_len, remaining_len, item,
                   fLog, ghosts, assert_failed, slowVars>>

WalkDone ==
    /\ pc = "walk"
    /\ remaining_len = 0
    /\ should_free_output' = FALSE
    /\ ret' = RetOk(output.start, initial_len, output.cap)
    /\ dropIdx' = 1
    /\ pc' = "drop_elems"
    /\ UNCHANGED <<vecs, mem, input, output, initial_len, remaining_len, item,
                   fLog, ghosts, assert_failed, slowVars>>

\* ------------------------------------------- impl Drop for ZipWithIter
\* Variant: only the completed steps are counted.
initialized_len_completed == initial_len - remaining_len - 1

initialized_len == initial_len - remaining_len

\* What dropping the cells cs in place does to the drop counts.
DropElems(cs) == Bump(drops, {c \in cs : IsElem(c)})
DropOuts(cs) == Bump(outDrops, {c[2] : c \in {x \in cs : IsOut(x)}})
TouchesFreed(as) == \E a \in as : frees[AllocOf(a)] > 0

\* Vec::drop_rest(data, initialized_len), first half: the unread elements of
\* the input at dropIdx are dropped in place.
DropRestElems ==
    /\ pc = "drop_elems"
    /\ LET d == input[dropIdx]
           slice == Vec_drop_rest_slice(d, initialized_len)
           cs == CellsAt(mem, slice)
       IN  /\ drops' = DropElems(cs)
           /\ outDrops' = DropOuts(cs)
           /\ ub' = (ub \/ Vec_drop_rest_underflow(d, initialized_len)
                        \/ TouchesFreed(slice)
                        \/ \E c \in cs : ~IsElem(c))
    /\ pc' = "drop_alloc"
    /\ UNCHANGED <<vecs, mem, input, output, initial_len, remaining_len,
                   should_free_output, item, dropIdx, ret, fLog, reads, passed,
                   frees, assert_failed, slowVars>>

\* A panic is in flight: the transform panicked, or an element's drop did.
Unwinding == ret.kind \in {"panic", "drop_panic"}
\* try_zip_with unwinds out of its teardown; at is the list position whose
\* disposal panicked.
RetDropPanic(r, at) == [r EXCEPT !.kind = "drop_panic", !.at = at]
RetAbort(r, at) == [r EXCEPT !.kind = "abort", !.at = at]

\* Vec::drop_rest, first half, when the drop of one of the unread elements
\* panics and no panic is in flight yet: the slice's drop glue drops the rest
\* of the slice while unwinding, and the deferred blocks then run as the
\* guards are dropped.  (What becomes of a result Vec already built belongs
\* to the unwinding of the caller's frame.)
DropRestElemsDiverge ==
    /\ pc = "drop_elems"
    /\ ~Unwinding
    /\ LET d == input[dropIdx]
           slice == Vec_drop_rest_slice(d, initialized_len)
           cs == CellsAt(mem, slice)
       IN  /\ slice # {}
           /\ drops' = DropElems(cs)
           /\ outDrops' = DropOuts(cs)
           /\ ub' = (ub \/ Vec_drop_rest_underflow(d, initialized_len)
                        \/ TouchesFreed(slice)
                        \/ \E c \in cs : ~IsElem(c))
    /\ ret' = RetDropPanic(ret, dropIdx)
    /\ pc' = "drop_alloc"
    /\ UNCHANGED <<vecs, mem, input, output, initial_len, remaining_len,
                   should_free_output, item, dropIdx, fLog, reads, passed,
                   frees, assert_failed, slowVars>>

\* Vec::drop_rest, first half, when the drop of the element at address a
\* panics while a panic is in flight (the transform's, an earlier input's, or
\* that of an element before it in this slice): the process aborts there,
\* with the slice dropped up to a and nothing after it run.
DropRestElemsAbort ==
    /\ pc = "drop_elems"
    /\ LET d == input[dropIdx]
           slice == Vec_drop_rest_slice(d, initialized_len)
       IN  \E a \in slice :
            /\ Unwinding \/ \E b \in slice : b < a
            /\ LET cs == CellsAt(mem, {b \in slice : b <= a}) IN
                /\ drops' = DropElems(cs)
                /\ outDrops' = DropOuts(cs)
                /\ ub' = (ub \/ TouchesFreed(slice) \/ \E c \in cs : ~IsElem(c))
    /\ ret' = RetAbort(ret, dropIdx)
    /\ pc' = "aborted"
    /\ UNCHANGED <<vecs, mem, input, output, initial_len, remaining_len,
                   should_free_output, item, dropIdx, fLog, reads, passed,
                   frees, assert_failed, slowVars>>

\* Variant: (A, T)::drop_rest with no guard: the tail is skipped when the
\* head's disposal panicked.
DropRestAlloc_tail_unguarded ==
    /\ pc = "drop_alloc"
    /\ frees' = IF Vec_drop_rest_frees(input[dropIdx])
                THEN Bump(frees, {AllocOf(input[dropIdx].start)})
                ELSE frees
    /\ IF dropIdx < Len(input) /\ ret.kind # "drop_panic"
       THEN /\ dropIdx' = dropIdx + 1
            /\ pc' = "drop_elems"
       ELSE /\ dropIdx' = dropIdx
            /\ pc' = "drop_output"
    /\ UNCHANGED <<vecs, mem, input, output, initial_len, remaining_len,
                   should_free_output, item, ret, fLog, reads, passed, drops,
                   outDrops, ub, assert_failed, slowVars>>

\* Vec::drop_rest, the deferred block: the allocation is freed if still owned.
\* Then the deferred T::drop_rest(rest, len) of (A, T)::drop_rest runs for the
\* tail, and after the last input the deferred block of Drop::drop.
DropRestAlloc ==
    /\ pc = "drop_alloc"
    /\ frees' = IF Vec_drop_rest_frees(input[dropIdx])
                THEN Bump(frees, {AllocOf(input[dropIdx].start)})
                ELSE frees
    /\ IF dropIdx < Len(input)
       THEN /\ dropIdx' = dropIdx + 1
            /\ pc' = "drop_elems"
       ELSE /\ dropIdx' = dropIdx
            /\ pc' = "drop_output"
    /\ UNCHANGED <<vecs, mem, input, output, initial_len, remaining_len,
                   should_free_output, item, ret, fLog, reads, passed, drops,
                   outDrops, ub, assert_failed, slowVars>>

\* Vec::from_raw_parts(output.start, initialized_len - 1, output.cap) is built
\* and dropped: that many leading cells are dropped, the buffer is freed.
\* Variant: every started step counts as a written output.
OutputDropLen_started == initialized_len

OutputDropLen == initialized_len - 1
OutputDropSlice ==
    IF OutputDropLen < 0 THEN {} ELSE {output.start + o : o \in 0..(OutputDropLen - 1)}

\* Variant: Drop::drop without its deferred block.
DropOutput_forgotten ==
    /\ pc = "drop_output"
    /\ pc' = "done"
    /\ UNCHANGED <<vecs, mem, input, output, initial_len, remaining_len,
                   should_free_output, item, dropIdx, ret, fLog, ghosts,
                   assert_failed, slowVars>>

\* The deferred block of Drop::drop; try_zip_with then returns or unwinds on.
DropOutput ==
    /\ pc = "drop_output"
    /\ IF should_free_output
       THEN LET cs == CellsAt(mem, OutputDropSlice) IN
            /\ outDrops' = DropOuts(cs)
            /\ drops' = DropElems(cs)
            /\ frees' = Bump(frees, {AllocOf(output.start)})
            /\ ub' = (ub \/ OutputDropLen < 0 \/ TouchesFreed(OutputDropSlice)
                         \/ \E c \in cs : ~IsOut(c))
       ELSE UNCHANGED <<outDrops, drops, frees, ub>>
    /\ pc' = "done"
    /\ UNCHANGED <<vecs, mem, input, output, initial_len, remaining_len,
                   should_free_output, item, dropIdx, ret, fLog, reads, passed,
                   assert_failed, slowVars>>

\* ------------------------------------------------- try_zip_with, slow path
\* No input's layout matches: input.into_iter().map(f).map(R::into_result)
\* .collect().  Tuple::into_iter builds Zip<A::Iter, T::Iter> over the
\* vec::IntoIters; iters[p] counts what the p-th IntoIter has yielded.
Tuple_into_iter(vs) == [p \in 1..Len(vs) |-> 0]

\* Zip::next at position p: a.next()?, then b.next()?; an item the head has
\* yielded is discarded when the tail is exhausted.
RECURSIVE ZipNext(_, _, _, _)
ZipNext(vs, m, pos, p) ==
    IF pos[p] = vs[p].len THEN [some |-> FALSE, item |-> <<>>, pos |-> pos]
    ELSE
        LET x == Cell(m, Base(p) + pos[p])
            pos1 == [pos EXCEPT ![p] = pos[p] + 1]
        IN  IF p = Len(vs) THEN [some |-> TRUE, item |-> <<x>>, pos |-> pos1]
            ELSE
                LET r == ZipNext(vs, m, pos1, p + 1) IN
                IF r.some
                THEN [some |-> TRUE, item |-> <<x>> \o r.item, pos |-> r.pos]
                ELSE [some |-> FALSE, item |-> <<>>, pos |-> r.pos]

\* The elements the iterators yielded between positions pos and pos2.
Yielded(pos, pos2) ==
    UNION {{Elem(p, j) : j \in pos[p]..(pos2[p] - 1)} : p \in DOMAIN pos}

TryZipWithSlow ==
    /\ pc = "start"
    /\ ~Tuple_check_layout(vecs, 1)
    /\ iters' = Tuple_into_iter(vecs)
    /\ collected' = <<>>
    /\ pc' = "slow"
    /\ UNCHANGED <<vecs, mem, input, output, initial_len, remaining_len,
                   should_free_output, item, dropIdx, ret, fLog, ghosts,
                   assert_failed>>

\* collect() asks the zipped iterator for the next item and gets one.
SlowNext ==
    /\ pc = "slow"
    /\ LET z == ZipNext(vecs, mem, iters, 1) IN
        /\ z.some
        /\ iters' = z.pos
        /\ item' = z.item
        /\ reads' = Bump(reads, Yielded(iters, z.pos))
    /\ pc' = "slow_apply"
    /\ UNCHANGED <<vecs, mem, input, output, initial_len, remaining_len,
                   should_free_output, dropIdx, collected, ret, fLog, passed,
                   drops, outDrops, frees, ub, assert_failed>>

\* The zipped iterator is exhausted: what the heads yielded for the missing
\* item is dropped, and collect() returns Ok(the collected Vec).
SlowEnd ==
    /\ pc = "slow"
    /\ LET z == ZipNext(vecs, mem, iters, 1) IN
        /\ ~z.some
        /\ iters' = z.pos
        /\ reads' = Bump(reads, Yielded(iters, z.pos))
        /\ drops' = Bump(drops, Yielded(iters, z.pos))
    /\ ret' = RetOk(Base(FreshAlloc), Len(collected), Len(collected))
    /\ pc' = "slow_drop"
    /\ UNCHANGED <<vecs, mem, input, output, initial_len, remaining_len,
                   should_free_output, item, dropIdx, collected, fLog, passed,
                   outDrops, frees, ub, assert_failed>>

SlowApplyOk ==
    /\ pc = "slow_apply"
    /\ fLog' = Append(fLog, "ok")
    /\ passed' = Bump(passed, ItemElems(item))
    /\ collected' = Append(collected, Out(Len(fLog) + 1, item))
    /\ item' = <<>>
    /\ pc' = "slow"
    /\ UNCHANGED <<vecs, mem, input, output, initial_len, remaining_len,
                   should_free_output, dropIdx, iters, ret, reads, drops,
                   outDrops, frees, ub, assert_failed>>

\* The first Err stops collect(), which returns that error.
SlowApplyErr ==
    /\ pc = "slow_apply"
    /\ fLog' = Append(fLog, "err")
    /\ passed' = Bump(passed, ItemElems(item))
    /\ ret' = RetErr(Len(fLog) + 1, item)
    /\ item' = <<>>
    /\ pc' = "slow_drop"
    /\ UNCHANGED <<vecs, mem, input, output, initial_len, remaining_len,
                   should_free_output, dropIdx, iters, collected, reads, drops,
                   outDrops, frees, ub, assert_failed>>

SlowApplyPanic ==
    /\ pc = "slow_apply"
    /\ fLog' = Append(fLog, "panic")
    /\ passed' = Bump(passed, ItemElems(item))
    /\ ret' = RetPanic(Len(fLog) + 1, item)
    /\ item' = <<>>
    /\ pc' = "slow_drop"
    /\ UNCHANGED <<vecs, mem, input, output, initial_len, remaining_len,
                   should_free_output, dropIdx, iters, collected, reads, drops,
                   outDrops, frees, ub, assert_failed>>

\* The iterator chain is dropped: every vec::IntoIter drops the elements it
\* has not yielded and frees its buffer; unless collect() returned Ok, the
\* partly collected Vec is dropped with its values.
SlowDrop ==
    /\ pc = "slow_drop"
    /\ drops' = Bump(drops, Yielded(iters, [p \in DOMAIN iters |-> vecs[p].len]))
    /\ IF ret.kind = "ok"
       THEN /\ frees' = Bump(frees, 1..Len(vecs))
            /\ outDrops' = outDrops
       ELSE /\ frees' = Bump(frees, 0..Len(vecs))
            /\ outDrops' = Bump(outDrops, {c[2] : c \in {collected[q] : q \in 1..Len(collected)}})
    /\ pc' = "done"
    /\ UNCHANGED <<vecs, mem, input, output, initial_len, remaining_len,
                   should_free_output, item, dropIdx, iters, collected, ret,
                   fLog, reads, passed, ub, assert_failed>>

\* ---------------------------------------------------------------------- Next
Next ==
    \/ TryZipWithFast
    \/ WalkNext
    \/ ApplyOk
    \/ ApplyErr
    \/ ApplyPanic
    \/ WalkDone
    \/ DropRestElems
    \/ DropRestAlloc
    \/ DropOutput
    \/ TryZipWithSlow
    \/ SlowNext
    \/ SlowEnd
    \/ SlowApplyOk
    \/ SlowApplyErr
    \/ SlowApplyPanic
    \/ SlowDrop

Spec == Init /\ [][Next]_vars

\* Every transform call returns or unwinds, and the thread keeps running.
SpecFair == Spec /\ WF_vars(Next)

\* The same program with element types whose drop may panic.
NextD ==
    \/ Next
    \/ DropRestElemsDiverge
    \/ DropRestElemsAbort

SpecD == Init /\ [][NextD]_vars

\* ================================================================== claims
\* What the claims speak of, stated from the inputs alone.
Done == pc = "done"
Matching == {p \in 1..N : vecs[p].layout = LayoutV}
FastPath == Matching # {}
MinLen == CHOOSE m \in {vecs[p].len : p \in 1..N} : \A p \in 1..N : m <= vecs[p].len
\* The tuple of the i-th elements of all inputs, in call-site order.
ItemAt(i) == [p \in 1..N |-> Elem(p, i)]
Calls == Len(fLog)
NeverFails == \A k \in 1..Len(fLog) : fLog[k] = "ok"
Failed == \E k \in 1..Len(fLog) : fLog[k] # "ok"
FirstFail == CHOOSE k \in 1..Len(fLog) : fLog[k] # "ok" /\ \A j \in 1..(k - 1) : fLog[j] = "ok"
InTeardown == pc \in {"drop_elems", "drop_alloc", "drop_output", "slow_drop", "done"}
\* The values of the returned Vec.
ResultVals ==
    [i \in 1..ret.len |->
        IF ret.start = Base(FreshAlloc) THEN collected[i]
        ELSE Cell(mem, ret.start + i - 1)]

\* C1: on the fast path with a transform that never fails, try_zip_with
\* returns Ok(result) with result[i] = f(item i) for every i below the minimum
\* input length, item i being the i-th elements of all inputs in call-site
\* order, and the k-th call of f receives item k-1.
C1_ElementWiseInOrder ==
    /\ (FastPath /\ pc = "apply") => item = ItemAt(Calls)
    /\ (FastPath /\ Done /\ NeverFails) =>
        /\ ret.kind = "ok"
        /\ ret.len >= MinLen
        /\ \A i \in 0..(MinLen - 1) : ResultVals[i + 1] = Out(i + 1, ItemAt(i))

C1_Witness ==
    /\ FastPath /\ Done /\ NeverFails
    /\ N = 2 /\ MinLen = 2
    /\ ret.kind = "ok"

\* The drops after a failure at the k-th application on the fast path: the
\* k-1 written outputs are dropped once each and no other output is, every
\* input element at index >= k is dropped once, and every input element is
\* either handed to the transform once or dropped once.
FailureDrops(k) ==
    /\ \A j \in 1..MaxLen : outDrops[j] = IF j < k THEN 1 ELSE 0
    /\ \A p \in 1..N : \A j \in 0..(vecs[p].len - 1) :
        /\ j >= k => drops[Elem(p, j)] = 1
        /\ passed[Elem(p, j)] + drops[Elem(p, j)] = 1

\* C2: when the transform returns an error at its k-th application on the
\* fast path, try_zip_with returns that error, the k-1 outputs written are
\* dropped exactly once, every input element at index >= k is dropped exactly
\* once, and every input element is passed to the transform or dropped,
\* exactly once.
C2_ErrorDrops ==
    (FastPath /\ Done /\ ret.kind = "err") =>
        /\ fLog[Calls] = "err"
        /\ ret = RetErr(Calls, ItemAt(Calls - 1))
        /\ FailureDrops(Calls)

C2_Witness ==
    /\ FastPath /\ Done /\ ret.kind = "err"
    /\ Calls = 2
    /\ N = 2 /\ vecs[1].len = 3 /\ vecs[2].len = 3

\* C3: when the transform panics at its k-th application on the fast path,
\* the teardown run while unwinding does the drops of an error at the k-th
\* application: k-1 outputs dropped once, every input element at index >= k
\* dropped once, none dropped twice or leaked.
C3_PanicDrops ==
    (FastPath /\ Done /\ ret.kind = "panic") =>
        /\ fLog[Calls] = "panic"
        /\ FailureDrops(Calls)
        /\ \A e \in DOMAIN drops : drops[e] <= 1

C3_Witness ==
    /\ FastPath /\ Done /\ ret.kind = "panic"
    /\ Calls = 2
    /\ N = 2 /\ vecs[1].len = 3 /\ vecs[2].len = 3

\* C4: a successful try_zip_with returns a result as long as the shortest
\* input; an input element at or beyond that length is never handed to the
\* transform (on the fast path never read at all) and is dropped exactly once.
C4_MinLength ==
    (Done /\ ret.kind = "ok") =>
        /\ ret.len = MinLen
        /\ \A p \in 1..N : \A j \in MinLen..(vecs[p].len - 1) :
            /\ passed[Elem(p, j)] = 0
            /\ FastPath => reads[Elem(p, j)] = 0
            /\ drops[Elem(p, j)] = 1

C4_Witness ==
    /\ Done /\ ret.kind = "ok" /\ FastPath
    /\ N = 2 /\ vecs[1].len = 3 /\ vecs[2].len = 1

\* C5: try_zip_with stops at the first error: if the transform first returns
\* an error at its k-th call, it is called k times in all, no input element
\* at index >= k is read, no output is written for that step, and the value
\* returned is that first error; on the fast and on the slow path.
C5_ShortCircuit ==
    /\ Failed => (InTeardown /\ Calls = FirstFail)
    /\ (Failed /\ fLog[FirstFail] = "err") =>
        /\ ret = RetErr(FirstFail, ItemAt(FirstFail - 1))
        /\ \A p \in 1..N : \A j \in FirstFail..(vecs[p].len - 1) :
            reads[Elem(p, j)] = 0 /\ passed[Elem(p, j)] = 0
        /\ IF FastPath
           THEN /\ output.ptr = output.start + FirstFail - 1
                /\ \A a \in DOMAIN mem : IsOut(mem[a]) => mem[a][2] < FirstFail
           ELSE Len(collected) = FirstFail - 1

C5_Witness ==
    /\ Done /\ ret.kind = "err" /\ ~FastPath
    /\ Calls = 2
    /\ \A p \in 1..N : vecs[p].len = 3

\* The inputs whose allocation has been claimed for the output.
Claimed == {p \in DOMAIN input : ~input[p].drop_alloc}

\* C6: on fast-path success the returned Vec is put together from the donor:
\* it starts at the claimed input's original start address, its length is the
\* minimum input length computed before the walk, and its capacity is the
\* claimed input's original capacity.
C6_ResultFromDonor ==
    (FastPath /\ Done /\ ret.kind = "ok") =>
        /\ ret.len = initial_len /\ initial_len = MinLen
        /\ \E p \in Matching :
            /\ Claimed = {p}
            /\ ret.start = Base(p)
            /\ ret.cap = vecs[p].cap

C6_Witness ==
    /\ FastPath /\ Done /\ ret.kind = "ok"
    /\ N = 2 /\ MinLen = 2
    /\ ret.start = Base(2) /\ ret.cap = 4

\* What the caller observes: Ok with the values, or the failure with the call
\* that raised it and the item that call was given.
Observed ==
    IF ret.kind = "ok" THEN <<"ok", ResultVals>>
    ELSE <<ret.kind, ret.call, ret.item>>

\* The outcome of applying the transform, as it answered in this run, to the
\* items 0, 1, .. of the inputs in order up to the first failure; it depends
\* on the inputs' elements and not on their layouts or capacities.
Expected ==
    IF Failed /\ FirstFail <= MinLen
    THEN <<fLog[FirstFail], FirstFail, ItemAt(FirstFail - 1)>>
    ELSE IF ~Failed /\ Calls = MinLen
    THEN <<"ok", [i \in 1..MinLen |-> Out(i, ItemAt(i - 1))]>>
    ELSE <<"undetermined">>

\* C7: the outcome does not depend on buffer reuse: on the fast path and on
\* the slow path alike, try_zip_with returns Ok with the element-wise values,
\* as many as the shortest input has, or the transform's first error.
C7_PathIndependent == Done => Observed = Expected

C7_Witness ==
    /\ Done /\ FastPath /\ ret.kind = "ok"
    /\ N = 2 /\ vecs[1].len = 3 /\ vecs[2].len = 2
    /\ vecs[1].layout = LayoutV /\ vecs[2].layout # LayoutV

\* C8: on the fast path an input element is read at most once and dropped at
\* most once, never both, and when the call is over every element has been
\* read or dropped: it was dropped by the teardown exactly once if and only
\* if it was not read.
C8_ReadXorDropped ==
    FastPath =>
        /\ \A e \in DOMAIN reads : reads[e] + drops[e] <= 1
        /\ Done => \A e \in DOMAIN reads : reads[e] + drops[e] = 1

C8_Witness ==
    /\ FastPath /\ Done
    /\ \E e \in DOMAIN reads : reads[e] = 1 /\ drops[e] = 0
    /\ \E e \in DOMAIN reads : reads[e] = 0 /\ drops[e] = 1
    /\ ret.kind = "panic"

\* C9: on the fast path exactly one input's allocation is claimed; disposing
\* of the inputs never frees it and frees each of the others exactly once,
\* and after success the claimed allocation alone survives, as the storage
\* of the result.
C9_OneAllocationReused ==
    /\ \A a \in DOMAIN frees : frees[a] <= 1
    /\ (FastPath /\ pc # "start") => Cardinality(Claimed) = 1
    /\ (FastPath /\ pc \in {"drop_output", "done"}) =>
        \E p \in 1..N :
            /\ Claimed = {p}
            /\ \A q \in (1..N) \ {p} : frees[q] = 1
            /\ pc = "drop_output" => frees[p] = 0
            /\ (Done /\ ret.kind = "ok") => (frees[p] = 0 /\ ret.start = Base(p))

C9_Witness ==
    /\ FastPath /\ Done /\ ret.kind = "ok"
    /\ N = 2 /\ Matching = {1, 2}
    /\ frees[1] + frees[2] = 1

\* C10: when try_zip_with fails (the transform returned an error or panicked)
\* every output produced is dropped, every input element not handed to the
\* transform is dropped, and every allocation, the claimed one with the
\* outputs included, is freed exactly once: no allocation survives.
C10_FailureReleasesAll ==
    (Done /\ ret.kind \in {"err", "panic"}) =>
        /\ \A j \in 1..MaxLen : outDrops[j] = IF j < Calls THEN 1 ELSE 0
        /\ \A e \in DOMAIN drops : drops[e] = IF passed[e] = 0 THEN 1 ELSE 0
        /\ \A p \in 1..N : frees[p] = 1
        /\ frees[FreshAlloc] = IF FastPath THEN 0 ELSE 1

C10_Witness ==
    /\ Done /\ ret.kind = "err" /\ FastPath
    /\ Calls = 3 /\ N = 2
    /\ \E p \in 1..N : vecs[p].cap = 4


\* The scenario of the crate's to_bits_no_nans example on [1.0, NaN, 3.0]: one
\* layout-matching input of three elements, the transform fails on index 1.
NanScenario ==
    /\ Done /\ N = 1 /\ FastPath
    /\ vecs[1].len = 3
    /\ fLog = <<"ok", "err">>

\* C11 as stated: in that scenario try_zip_with returns the error raised at
\* index 1, the output of index 1 was produced and then dropped, and the
\* element at index 2 is never read and dropped exactly once.
C11_AsStated ==
    NanScenario =>
        /\ ret = RetErr(2, ItemAt(1))
        /\ outDrops[2] = 1
        /\ reads[Elem(1, 2)] = 0 /\ drops[Elem(1, 2)] = 1

\* C11: in that scenario try_zip_with returns the error raised at index 1;
\* the output of index 0 was produced and then dropped exactly once, no
\* output exists for index 1, whose element went to the transform; the
\* element at index 2 is never read and dropped exactly once.
C11_NanScenario ==
    NanScenario =>
        /\ ret = RetErr(2, ItemAt(1))
        /\ outDrops = <<1, 0, 0>> \o [j \in 1..(MaxLen - 3) |-> 0]
        /\ Cell(mem, Base(1)) = Out(1, ItemAt(0))
        /\ \A a \in DOMAIN mem : IsOut(mem[a]) => mem[a][2] = 1
        /\ \A j \in {0, 1} :
            reads[Elem(1, j)] = 1 /\ passed[Elem(1, j)] = 1 /\ drops[Elem(1, j)] = 0
        /\ reads[Elem(1, 2)] = 0 /\ passed[Elem(1, 2)] = 0 /\ drops[Elem(1, 2)] = 1

C11_Witness == NanScenario /\ vecs[1].cap = 3 /\ frees[1] = 1


\* The input the selection policy names: among the layout-matching inputs the
\* one of largest capacity, the first in call-site order among equals.
PolicyDonor ==
    CHOOSE p \in Matching : \A q \in Matching :
        \/ vecs[q].cap < vecs[p].cap
        \/ vecs[q].cap = vecs[p].cap /\ p <= q

\* C12: donor selection claims exactly one input: among the inputs whose
\* layout matches the output type the one with the largest capacity, the
\* first in call-site order on ties; an input whose layout does not match is
\* never claimed; and the depth max_cap records is that of the input that
\* take_output_impl claims.
C12_DonorSelection ==
    (FastPath /\ pc # "start") =>
        /\ Claimed = {PolicyDonor}
        /\ Claimed \subseteq Matching
        /\ N >= 2 =>
            LET val == max_cap(vecs, Tuple_into_data(vecs), 1, 0) IN
            /\ val.some
            /\ val.cap = vecs[PolicyDonor].cap
            /\ Claimed = {p \in 1..N : LEN(vecs, p) = val.depth}

C12_Witness ==
    /\ FastPath /\ pc = "walk"
    /\ N = 2 /\ Matching = {1, 2}
    /\ vecs[1].cap = vecs[2].cap /\ vecs[1].cap = 2
    /\ Claimed = {1}


\* C13: during the fast-path walk the output's write cursor never overtakes
\* the donor's read cursor: a slot is written only when its index is strictly
\* below the donor's read cursor, so outputs lie only in slots already read,
\* no unread donor element is overwritten, and no overwritten slot is read or
\* dropped as an input element.
C13_WriteBehindRead ==
    (FastPath /\ pc # "start") =>
        \A p \in Claimed :
            /\ output.start = input[p].start
            /\ output.ptr <= input[p].ptr
            /\ pc = "apply" => output.ptr < input[p].ptr
            /\ \A a \in DOMAIN mem : IsOut(mem[a]) =>
                (AllocOf(a) = p /\ a < output.ptr /\ reads[Elem(p, a - Base(p))] = 1)
            /\ \A j \in 0..(vecs[p].len - 1) :
                reads[Elem(p, j)] = 0 => mem[Base(p) + j] = Elem(p, j)
            /\ ~ub

C13_Witness ==
    /\ FastPath /\ pc = "apply"
    /\ N = 2 /\ Calls = 1
    /\ \E p \in Claimed : output.ptr = input[p].ptr - 1 /\ output.ptr = output.start + 1

\* C14: in every state of the walk remaining_len is at most the number of
\* unread elements of every input (its length less its cursor's offset), so
\* every element read is an initialized one of its input, and every cursor
\* stays within [start, start + capacity].
C14_RemainingLenBound ==
    (FastPath /\ pc # "start") =>
        /\ \A p \in 1..N :
            /\ remaining_len <= input[p].len - (input[p].ptr - input[p].start)
            /\ input[p].start <= input[p].ptr
            /\ input[p].ptr <= input[p].start + input[p].cap
        /\ \A q \in 1..Len(item) : item[q] = Elem(q, input[q].ptr - input[q].start - 1)
        /\ ~ub

C14_Witness ==
    /\ FastPath /\ pc = "apply"
    /\ N = 2 /\ vecs[1].len = 3 /\ vecs[2].len = 2
    /\ remaining_len = 1
    /\ input[1].ptr = input[1].start + 1


\* Input q has been disposed of: each of its elements was read or dropped,
\* and its allocation, if still owned, is freed.
Disposed(q) ==
    /\ \A j \in 0..(vecs[q].len - 1) : reads[Elem(q, j)] + drops[Elem(q, j)] = 1
    /\ input[q].drop_alloc => frees[q] = 1
Untouched(q) ==
    /\ \A j \in 0..(vecs[q].len - 1) : drops[Elem(q, j)] = 0
    /\ frees[q] = 0

\* The part of C15 that holds with or without an abort: the list is disposed
\* of head first, the run goes on until it is done or aborted, and when
\* try_zip_with is left, by return or by unwinding, every input has been
\* disposed of, also after the disposal of an earlier input panicked.
HeadThenTail ==
    FastPath =>
        /\ pc \in {"drop_elems", "drop_alloc"} =>
            /\ \A q \in 1..(dropIdx - 1) : Disposed(q)
            /\ \A q \in (dropIdx + 1)..N : Untouched(q)
        /\ pc \in {"drop_output", "done"} => \A q \in 1..N : Disposed(q)
        /\ pc \notin {"done", "aborted"} => ENABLED NextD

Own(q) == IF input[q].drop_alloc THEN 1 ELSE 0
FreedIffOwned ==
    FastPath =>
        /\ \A q \in 1..N : frees[q] <= 1
        /\ pc = "drop_elems" => \A q \in 1..(dropIdx - 1) : frees[q] = Own(q)
        /\ pc = "drop_alloc" => \A q \in 1..(dropIdx - 1) : frees[q] = Own(q)
        /\ pc = "drop_output" => \A q \in 1..N : frees[q] = Own(q)

C17_LayoutPrecondition ==
    /\ ~assert_failed
    /\ (FastPath /\ pc # "start") =>
        /\ Cardinality(Claimed) = 1
        /\ \A p \in Claimed : vecs[p].layout = LayoutV

\* A two-input list whose non-matching input has the larger capacity, with the
\* matching one claimed.
C17_Witness ==
    /\ FastPath /\ pc # "start" /\ N = 2
    /\ \E p \in 1..N, q \in 1..N :
        /\ vecs[p].layout = LayoutV /\ vecs[q].layout # LayoutV
        /\ vecs[q].cap > vecs[p].cap
        /\ p \in Claimed
    /\ ~assert_failed


\* ------------------------------------------------------------------------
\* C18: every invocation goes Init -> DonorSelection -> {FastPath | SlowPath}
\* -> {Success | Failure} -> Teardown -> Terminal.  Provided each transform
\* call returns or unwinds, the walk applies the transform at most target_len
\* times, the invocation eventually reaches Terminal, and Teardown runs exactly
\* once on each exit path (normal return, early error return, unwinding): it
\* is entered only from the walk, with the exit already decided, it is left
\* only for Terminal, and Terminal is reached only through it.
Phase(p) ==
    CASE p = "start" -> "init"
      [] p \in {"walk", "apply", "slow", "slow_apply"} -> "walk"
      [] p \in {"drop_elems", "drop_alloc", "drop_output", "slow_drop"} -> "teardown"
      [] p = "done" -> "terminal"
      [] OTHER -> "other"

PhaseStep ==
    \/ Phase(pc') = Phase(pc)
    \/ /\ Phase(pc) = "init" /\ Phase(pc') = "walk"
       /\ pc' \in {"walk", "apply"} <=> FastPath
    \/ /\ Phase(pc) = "walk" /\ Phase(pc') = "teardown"
       /\ ret'.kind \in {"ok", "err", "panic"}
    \/ /\ Phase(pc) = "teardown" /\ Phase(pc') = "terminal"
       /\ ret' = ret

C18_Lifecycle ==
    /\ [][PhaseStep]_vars
    /\ [](Calls <= MinLen)
    /\ [](Phase(pc) \in {"init", "walk"} => ret.kind = "none")
    /\ <>Done

\* An invocation that unwound from the second transform call and has been
\* torn down.
C18_Witness ==
    /\ Done /\ FastPath /\ ret.kind = "panic" /\ Calls = 2 /\ MinLen = 3
    /\ \A p \in 1..N : input[p].drop_alloc => frees[p] = 1


\* ------------------------------------------------------------------------
\* C19: whenever the teardown of ZipWithIter runs with should_free_output
\* still true, at least one walk step has been started, so the count of
\* outputs to discard, initialized_len - 1, is not negative and is exactly the
\* number of outputs written; for empty input the flag is cleared before
\* teardown; and initialized_len never exceeds any input's length, so
\* data.len - len in drop_rest does not underflow.
InZipWithIterDrop == pc \in {"drop_elems", "drop_alloc", "drop_output"}
Written == Cardinality({k \in 1..Len(fLog) : fLog[k] = "ok"})
OutputsInBuffer ==
    Cardinality({a \in DOMAIN mem : AllocOf(a) = AllocOf(output.start) /\ IsOut(mem[a])})

C19_NoUnderflow ==
    InZipWithIterDrop =>
        /\ should_free_output =>
            /\ initial_len - remaining_len >= 1
            /\ (initial_len - remaining_len) - 1 >= 0
            /\ (initial_len - remaining_len) - 1 = Written
            /\ OutputDropLen = Written
            /\ OutputsInBuffer >= Written
        /\ MinLen = 0 => ~should_free_output
        /\ \A p \in 1..N :
            /\ initial_len - remaining_len <= vecs[p].len
            /\ ~Vec_drop_rest_underflow(input[p], initialized_len)

\* Teardown after the very first transform call failed: one step started, no
\* output written, and inputs of different lengths.
C19_Witness ==
    /\ pc = "drop_output" /\ should_free_output
    /\ fLog = <<"err">> /\ initialized_len = 1 /\ OutputDropLen = 0
    /\ N = 2 /\ vecs[1].len = 1 /\ vecs[2].len = 3


\* ------------------------------------------------------------------------
\* C20: the order of teardown prevents use of freed memory.  On the failure
\* or unwind path every input's unread elements (the donor's too) are dropped
\* before the written outputs are dropped and the donor allocation is freed;
\* within each input the unread elements are dropped before that input's
\* allocation is freed, and never after; on the success path teardown drops no
\* output and does not free the donor allocation, which the returned vector
\* owns.
Unread(p) == {e \in {Elem(p, j) : j \in 0..(vecs[p].len - 1)} : reads[e] = 0}
AllDropped(p) == \A e \in Unread(p) : drops[e] = 1
DropsIn(p) == \E j \in 0..(vecs[p].len - 1) : drops'[Elem(p, j)] # drops[Elem(p, j)]
DonorReleased == outDrops' # outDrops \/ \E p \in Claimed : frees'[p] # frees[p]

TeardownOrderStep ==
    (FastPath /\ pc # "start") =>
        /\ DonorReleased => \A p \in 1..N : AllDropped(p)
        /\ \A p \in 1..N :
            /\ frees'[p] # frees[p] => AllDropped(p) /\ frees[p] = 0
            /\ DropsIn(p) => frees[p] = 0
        /\ ret.kind \in {"none", "ok"} => ~DonorReleased

C20_TeardownOrder ==
    /\ [][TeardownOrderStep]_vars
    /\ [](~ub)
    /\ []((FastPath /\ Done /\ ret.kind = "ok") =>
            /\ \A k \in DOMAIN outDrops : outDrops[k] = 0
            /\ \A p \in Claimed : frees[p] = 0)

\* A torn-down invocation whose second transform call returned an error: one
\* output was written and dropped, the donor's unread element was dropped and
\* the donor allocation freed.
C20_Witness ==
    /\ FastPath /\ Done /\ ret.kind = "err" /\ fLog = <<"ok", "err">> /\ N = 2
    /\ outDrops[1] = 1
    /\ \E p \in Claimed : vecs[p].len = 3 /\ drops[Elem(p, 2)] = 1 /\ frees[p] = 1
    /\ \A p \in 1..N : frees[p] = 1

====
